---- MODULE Spec2Model ----
(***************************************************************************)
(* Native-messaging framing layer of radical-native                        *)
(* (native/src/native_messaging.rs): stdin() reads one length-prefixed     *)
(* JSON request, stdout_reply()/stdout_error() write one length-prefixed   *)
(* JSON response through stdout().                                         *)
(*                                                                         *)
(* Bytes are naturals 0..255, byte strings are sequences of bytes, text is *)
(* a sequence of Unicode code points.  A serde_json::Value is a record     *)
(*   [t, neg, ds, s, c]                                                    *)
(* with t the variant, neg/ds the sign and decimal digits of a Number, s   *)
(* the code points of a String (or of a member's key) and c the children   *)
(* (elements of an Array, members of an Object, the value of a member).    *)
(* Numbers are kept as digit strings so that the full 64-bit range is      *)
(* exact.  An Object is a BTreeMap: its members are strictly ascending by  *)
(* key.                                                                    *)
(***************************************************************************)
EXTENDS Integers, Sequences, FiniteSets

----------------------------------------------------------------------------
(* Generic helpers on sequences *)

Min(a, b) == IF a <= b THEN a ELSE b

Take(s, n) == SubSeq(s, 1, Min(n, Len(s)))

Drop(s, n) == SubSeq(s, Min(n, Len(s)) + 1, Len(s))

(* lexicographic order on sequences of naturals: the order of str / [u8] *)
SeqLess(a, b) ==
    \E i \in 1..(Min(Len(a), Len(b)) + 1) :
        /\ \A j \in 1..(i - 1) : a[j] = b[j]
        /\ \/ i > Len(a) /\ i <= Len(b)
           \/ i <= Len(a) /\ i <= Len(b) /\ a[i] < b[i]

(* a <= b for two decimal digit strings without leading zeros *)
DigitsLeq(a, b) ==
    \/ Len(a) < Len(b)
    \/ Len(a) = Len(b) /\ (a = b \/ SeqLess(a, b))

RECURSIVE Concat(_)
Concat(ss) == IF ss = <<>> THEN <<>> ELSE Head(ss) \o Concat(Tail(ss))

----------------------------------------------------------------------------
(* serde_json::Value *)

Null == [t |-> "null", neg |-> FALSE, ds |-> <<>>, s |-> <<>>, c |-> <<>>]

Bool(b) == [t |-> IF b THEN "true" ELSE "false", neg |-> FALSE, ds |-> <<>>,
            s |-> <<>>, c |-> <<>>]

Num(neg, ds) == [t |-> "num", neg |-> neg, ds |-> ds, s |-> <<>>, c |-> <<>>]

Str(s) == [t |-> "str", neg |-> FALSE, ds |-> <<>>, s |-> s, c |-> <<>>]

Arr(c) == [t |-> "arr", neg |-> FALSE, ds |-> <<>>, s |-> <<>>, c |-> c]

Member(k, v) == [t |-> "member", neg |-> FALSE, ds |-> <<>>, s |-> k, c |-> <<v>>]

Obj(ms) == [t |-> "obj", neg |-> FALSE, ds |-> <<>>, s |-> <<>>, c |-> ms]

(* BTreeMap::insert on the members of an object: replaces the value of an
   existing key, otherwise inserts at the key's place in the order *)
RECURSIVE MapInsert(_, _, _)
MapInsert(ms, k, v) ==
    IF ms = <<>> THEN <<Member(k, v)>>
    ELSE IF Head(ms).s = k THEN <<Member(k, v)>> \o Tail(ms)
    ELSE IF SeqLess(k, Head(ms).s) THEN <<Member(k, v)>> \o ms
    ELSE <<Head(ms)>> \o MapInsert(Tail(ms), k, v)

(* Value::get(key) / value[key]: the member's value, Null when the value is
   not an object or has no such key *)
Get(v, k) ==
    IF v.t = "obj" /\ \E i \in 1..Len(v.c) : v.c[i].s = k
    THEN LET i == CHOOSE i \in 1..Len(v.c) : v.c[i].s = k IN v.c[i].c[1]
    ELSE Null


(* the keys "rpc_id", "reply", "error" as code points *)
KeyRpcId == <<114, 112, 99, 95, 105, 100>>
KeyReply == <<114, 101, 112, 108, 121>>
KeyError == <<101, 114, 114, 111, 114>>

(* i64::MAX and -i64::MIN as digit strings *)
I64MaxDigits == <<9,2,2,3,3,7,2,0,3,6,8,5,4,7,7,5,8,0,7>>
I64MinDigits == <<9,2,2,3,3,7,2,0,3,6,8,5,4,7,7,5,8,0,8>>
U64MaxDigits == <<1,8,4,4,6,7,4,4,0,7,3,7,0,9,5,5,1,6,1,5>>

(* Value::as_i64: Some for a Number that is an integer within i64 *)
IsI64(v) ==
    /\ v.t = "num"
    /\ IF v.neg THEN DigitsLeq(v.ds, I64MinDigits)
                ELSE DigitsLeq(v.ds, I64MaxDigits)

----------------------------------------------------------------------------
(* serde_json::to_string: the compact serialisation of a Value as UTF-8 bytes *)

(* UTF-8 encoding of one code point of the Basic Multilingual Plane *)
Utf8(cp) ==
    IF cp < 128 THEN <<cp>>
    ELSE IF cp < 2048 THEN <<192 + (cp \div 64), 128 + (cp % 64)>>
    ELSE <<224 + (cp \div 4096), 128 + ((cp \div 64) % 64), 128 + (cp % 64)>>

HexDigit(n) == IF n < 10 THEN 48 + n ELSE 87 + n

(* format_escaped_str: quote, backslash and control characters are escaped,
   everything else is written as its UTF-8 bytes *)
EscapeChar(cp) ==
    IF cp = 34 THEN <<92, 34>>
    ELSE IF cp = 92 THEN <<92, 92>>
    ELSE IF cp = 8 THEN <<92, 98>>
    ELSE IF cp = 9 THEN <<92, 116>>
    ELSE IF cp = 10 THEN <<92, 110>>
    ELSE IF cp = 12 THEN <<92, 102>>
    ELSE IF cp = 13 THEN <<92, 114>>
    ELSE IF cp < 32 THEN <<92, 117, 48, 48, HexDigit(cp \div 16), HexDigit(cp % 16)>>
    ELSE Utf8(cp)

WriteStr(s) == <<34>> \o Concat([i \in 1..Len(s) |-> EscapeChar(s[i])]) \o <<34>>

RECURSIVE JoinComma(_)
JoinComma(ss) ==
    IF ss = <<>> THEN <<>>
    ELSE IF Len(ss) = 1 THEN ss[1]
    ELSE ss[1] \o <<44>> \o JoinComma(Tail(ss))

RECURSIVE to_string(_)
to_string(v) ==
    CASE v.t = "null"   -> <<110, 117, 108, 108>>
      [] v.t = "true"   -> <<116, 114, 117, 101>>
      [] v.t = "false"  -> <<102, 97, 108, 115, 101>>
      [] v.t = "num"    -> (IF v.neg THEN <<45>> ELSE <<>>)
                           \o [i \in 1..Len(v.ds) |-> 48 + v.ds[i]]
      [] v.t = "str"    -> WriteStr(v.s)
      [] v.t = "arr"    -> <<91>> \o JoinComma([i \in 1..Len(v.c) |-> to_string(v.c[i])])
                           \o <<93>>
      [] v.t = "obj"    -> <<123>> \o JoinComma([i \in 1..Len(v.c) |-> to_string(v.c[i])])
                           \o <<125>>
      [] v.t = "member" -> WriteStr(v.s) \o <<58>> \o to_string(v.c[1])

----------------------------------------------------------------------------
(* serde_json::from_slice: parse UTF-8 JSON text into a Value.  A result is
   [ok, v, i]: whether the parse succeeded, the value, the next position.
   The grammar covers null, true, false, integers within the u64 / i64
   range, strings with every escape but surrogate pairs, arrays and objects;
   fractions, exponents, integers outside that range and code points beyond
   the Basic Multilingual Plane are outside the model (the input streams of
   the model never contain them) and are rejected here. *)

Fail == [ok |-> FALSE, v |-> Null, i |-> 0]

IsDigit(x) == x >= 48 /\ x <= 57

IsCont(b, j) == j <= Len(b) /\ b[j] >= 128 /\ b[j] <= 191

HexVal(x) ==
    IF x >= 48 /\ x <= 57 THEN x - 48
    ELSE IF x >= 97 /\ x <= 102 THEN x - 87
    ELSE IF x >= 65 /\ x <= 70 THEN x - 55
    ELSE -1

RECURSIVE SkipWs(_, _)
SkipWs(b, i) ==
    IF i <= Len(b) /\ b[i] \in {32, 9, 10, 13} THEN SkipWs(b, i + 1) ELSE i

RECURSIVE DigitRun(_, _)
DigitRun(b, j) == IF j <= Len(b) /\ IsDigit(b[j]) THEN DigitRun(b, j + 1) ELSE j

(* the literal w at position i *)
ParseWord(b, i, w, v) ==
    IF i + Len(w) - 1 <= Len(b) /\ SubSeq(b, i, i + Len(w) - 1) = w
    THEN [ok |-> TRUE, v |-> v, i |-> i + Len(w)]
    ELSE Fail

ParseNumber(b, i) ==
    LET neg == b[i] = 45
        j   == IF neg THEN i + 1 ELSE i
        k   == DigitRun(b, j)
        ds  == [n \in 1..(k - j) |-> b[j + n - 1] - 48]
    IN  IF k = j THEN Fail                                   \* no digit
        ELSE IF b[j] = 48 /\ k > j + 1 THEN Fail             \* leading zero
        ELSE IF k <= Len(b) /\ b[k] \in {46, 69, 101} THEN Fail   \* float
        ELSE IF neg /\ ds = <<0>> THEN Fail                  \* -0 is a float
        ELSE IF neg /\ ~DigitsLeq(ds, I64MinDigits) THEN Fail
        ELSE IF ~neg /\ ~DigitsLeq(ds, U64MaxDigits) THEN Fail
        ELSE [ok |-> TRUE, v |-> Num(neg, ds), i |-> k]

(* the characters of a string from position j on, up to the closing quote;
   the result's v is a Str *)
RECURSIVE StrChars(_, _, _)
StrChars(b, j, acc) ==
    IF j > Len(b) THEN Fail
    ELSE IF b[j] = 34 THEN [ok |-> TRUE, v |-> Str(acc), i |-> j + 1]
    ELSE IF b[j] = 92 THEN
        IF j + 1 > Len(b) THEN Fail
        ELSE LET e == b[j + 1] IN
             IF e \in {34, 92, 47} THEN StrChars(b, j + 2, Append(acc, e))
             ELSE IF e = 98 THEN StrChars(b, j + 2, Append(acc, 8))
             ELSE IF e = 102 THEN StrChars(b, j + 2, Append(acc, 12))
             ELSE IF e = 110 THEN StrChars(b, j + 2, Append(acc, 10))
             ELSE IF e = 114 THEN StrChars(b, j + 2, Append(acc, 13))
             ELSE IF e = 116 THEN StrChars(b, j + 2, Append(acc, 9))
             ELSE IF e = 117 /\ j + 5 <= Len(b)
                     /\ \A n \in 2..5 : HexVal(b[j + n]) >= 0 THEN
                  LET cp == 4096 * HexVal(b[j + 2]) + 256 * HexVal(b[j + 3])
                            + 16 * HexVal(b[j + 4]) + HexVal(b[j + 5])
                  IN  IF cp >= 55296 /\ cp <= 57343 THEN Fail   \* surrogate
                      ELSE StrChars(b, j + 6, Append(acc, cp))
             ELSE Fail
    ELSE IF b[j] < 32 THEN Fail                      \* raw control character
    ELSE IF b[j] < 128 THEN StrChars(b, j + 1, Append(acc, b[j]))
    ELSE IF b[j] >= 194 /\ b[j] <= 223 /\ IsCont(b, j + 1) THEN
        StrChars(b, j + 2, Append(acc, 64 * (b[j] - 192) + (b[j + 1] - 128)))
    ELSE IF b[j] >= 224 /\ b[j] <= 239 /\ IsCont(b, j + 1) /\ IsCont(b, j + 2)
            /\ (b[j] = 224 => b[j + 1] >= 160)
            /\ (b[j] = 237 => b[j + 1] <= 159) THEN
        StrChars(b, j + 3, Append(acc, 4096 * (b[j] - 224) + 64 * (b[j + 1] - 128)
                                       + (b[j + 2] - 128)))
    ELSE Fail                                        \* not UTF-8

RECURSIVE ParseValue(_, _), ArrElems(_, _, _), ObjMembers(_, _, _)

ParseValue(b, i) ==
    IF i > Len(b) THEN Fail
    ELSE IF b[i] = 110 THEN ParseWord(b, i, <<110, 117, 108, 108>>, Null)
    ELSE IF b[i] = 116 THEN ParseWord(b, i, <<116, 114, 117, 101>>, Bool(TRUE))
    ELSE IF b[i] = 102 THEN ParseWord(b, i, <<102, 97, 108, 115, 101>>, Bool(FALSE))
    ELSE IF b[i] = 34 THEN StrChars(b, i + 1, <<>>)
    ELSE IF b[i] = 45 \/ IsDigit(b[i]) THEN ParseNumber(b, i)
    ELSE IF b[i] = 91 THEN
        LET j == SkipWs(b, i + 1) IN
        IF j <= Len(b) /\ b[j] = 93 THEN [ok |-> TRUE, v |-> Arr(<<>>), i |-> j + 1]
        ELSE ArrElems(b, j, <<>>)
    ELSE IF b[i] = 123 THEN
        LET j == SkipWs(b, i + 1) IN
        IF j <= Len(b) /\ b[j] = 125 THEN [ok |-> TRUE, v |-> Obj(<<>>), i |-> j + 1]
        ELSE ObjMembers(b, j, <<>>)
    ELSE Fail

(* the elements of an array, the first at position j *)
ArrElems(b, j, acc) ==
    LET r == ParseValue(b, j)
        k == SkipWs(b, r.i)
    IN  IF ~r.ok \/ k > Len(b) THEN Fail
        ELSE IF b[k] = 44 THEN ArrElems(b, SkipWs(b, k + 1), Append(acc, r.v))
        ELSE IF b[k] = 93 THEN [ok |-> TRUE, v |-> Arr(Append(acc, r.v)), i |-> k + 1]
        ELSE Fail

(* the members of an object, the first key's quote at position j *)
ObjMembers(b, j, ms) ==
    IF j > Len(b) \/ b[j] # 34 THEN Fail
    ELSE LET key == StrChars(b, j + 1, <<>>)
             k   == SkipWs(b, key.i)
         IN  IF ~key.ok \/ k > Len(b) \/ b[k] # 58 THEN Fail
             ELSE LET r  == ParseValue(b, SkipWs(b, k + 1))
                      m  == SkipWs(b, r.i)
                      nx == MapInsert(ms, key.v.s, r.v)
                  IN  IF ~r.ok \/ m > Len(b) THEN Fail
                      ELSE IF b[m] = 44 THEN ObjMembers(b, SkipWs(b, m + 1), nx)
                      ELSE IF b[m] = 125 THEN [ok |-> TRUE, v |-> Obj(nx), i |-> m + 1]
                      ELSE Fail

(* from_slice: one value, surrounded by optional white space, and nothing else *)
from_slice(b) ==
    LET r == ParseValue(b, SkipWs(b, 1)) IN
    IF ~r.ok THEN Fail
    ELSE IF SkipWs(b, r.i) <= Len(b) THEN Fail
    ELSE r

----------------------------------------------------------------------------
(* byteorder, NativeEndian.  A u32 is kept as its four base-256 digits,
   least significant first, so that every value of the type is exact. *)

(* `n as u32` for a usize n: the low 32 bits *)
as_u32(n) ==
    <<n % 256, (n \div 256) % 256, (n \div 65536) % 256, (n \div 16777216) % 256>>

(* String::len(): the number of bytes of the string, a usize.  A usize (of
   64 bits) is kept as its eight base-256 digits, least significant first;
   the length of a string of the model fits the low four. *)
message_len(s) == as_u32(Len(s)) \o <<0, 0, 0, 0>>

(* mutant: a length that does not fit 32 bits becomes u32::MAX *)
usize_as_u32_saturating(n) ==
    IF SubSeq(n, 5, 8) = <<0, 0, 0, 0>> THEN SubSeq(n, 1, 4)
    ELSE <<255, 255, 255, 255>>

(* `n as u32` for a usize n given by its digits: the cast truncates, it keeps
   the low 32 bits *)
usize_as_u32(n) == SubSeq(n, 1, 4)

Reverse4(x) == <<x[4], x[3], x[2], x[1]>>

(* mutant: the length is written big-endian whatever the host *)
write_u32_be(x, e) == Reverse4(x)

(* WriteBytesExt::write_u32::<NativeEndian>: the four bytes of x in the byte
   order e of the host *)
write_u32(x, e) == IF e = "LE" THEN x ELSE Reverse4(x)

(* ReadBytesExt::read_u32::<NativeEndian> on a four-byte buffer *)
read_u32(buf, e) == IF e = "LE" THEN buf ELSE Reverse4(buf)

(* n <= x for a natural n and a u32 x *)
NatLeqU32(n, x) ==
    LET d == as_u32(n) IN
    \/ d = x
    \/ \E i \in 1..4 : d[i] < x[i] /\ \A j \in (i + 1)..4 : d[j] = x[j]

----------------------------------------------------------------------------
(* Bounds of the model *)

(* items (frames or fragments) the peer sends on standard input in one run *)
MaxFrames == 2

(* a short write accepts at most this many bytes of the buffer it is given *)
MaxShort == 1

(* the peer delivers an item in pieces of this many bytes, or the rest of it
   at once *)
Chunk == 3

(* the threads of the process; a run of Spec uses the main thread only *)
Threads == {"main", "worker"}

(* correlation ids handed to the writer: 1, i64::MIN, i64::MAX *)
RpcIds == {Num(FALSE, <<1>>), Num(TRUE, I64MinDigits), Num(FALSE, I64MaxDigits)}

(* the number of elements of the long reply, whose frame needs two bytes of
   the length field *)
LongCount == 13

(* reply values handed to stdout_reply: null, {"ok":true}, the string
   e-acute quote (two code points, four bytes once serialised), and an array
   of LongCount times i64::MAX, over 255 bytes once serialised *)
Replies ==
    {Null, Obj(<<Member(<<111, 107>>, Bool(TRUE))>>), Str(<<233, 34>>),
     Arr([i \in 1..LongCount |-> Num(FALSE, I64MaxDigits)])}

(* crate::Error values handed to stdout_error *)
Errors == {"Io", "Protocol"}

(* format!("{:?}", error): the Debug rendering of a crate::Error, a
   deterministic string (here Io("x") and Protocol) *)
debug_fmt(e) ==
    IF e = "Io" THEN <<73, 111, 40, 34, 120, 34, 41>>
    ELSE <<80, 114, 111, 116, 111, 99, 111, 108>>

(* as_i64!(message, key): the i64 under the key, or a protocol error that
   the `?` inside the macro returns from the calling function *)
as_i64(message, key) ==
    LET v == Get(message, key) IN
    IF IsI64(v) THEN [ok |-> TRUE, id |-> v] ELSE [ok |-> FALSE, id |-> Null]

----------------------------------------------------------------------------
(* What the peer may send on standard input *)

(* {"rpc_id":1} *)
ReqOne == to_string(Obj(<<Member(KeyRpcId, Num(FALSE, <<1>>))>>))

(* {"m":"<e-acute>","rpc_id":-9223372036854775808} *)
ReqMin == to_string(Obj(<<Member(<<109>>, Str(<<233>>)),
                          Member(KeyRpcId, Num(TRUE, I64MinDigits))>>))

(* payloads that parse as JSON but carry no usable rpc_id:
   {"foo":1}   {"rpc_id":"1"}   {"rpc_id":9223372036854775808}   [1] *)
ReqNoId  == to_string(Obj(<<Member(<<102, 111, 111>>, Num(FALSE, <<1>>))>>))
ReqStrId == to_string(Obj(<<Member(KeyRpcId, Str(<<49>>))>>))
ReqBigId == to_string(Obj(<<Member(KeyRpcId, Num(FALSE, I64MinDigits))>>))
ReqArray == to_string(Arr(<<Num(FALSE, <<1>>)>>))

(* payloads that are not JSON: {"rpc_id":1  and  {"rpc_id":1,"s":"\xFF"}
   (a byte that is not UTF-8) *)
ReqCut     == Take(ReqOne, Len(ReqOne) - 1)
ReqNotUtf8 == Take(ReqOne, Len(ReqOne) - 1)
              \o <<44, 34, 115, 34, 58, 34, 255, 34, 125>>

(* a payload with white space and a repeated key:  {"rpc_id":2, "rpc_id":3} *)
ReqTwice == <<32, 123>> \o WriteStr(KeyRpcId) \o <<58, 50, 44, 32>>
            \o WriteStr(KeyRpcId) \o <<58, 51, 125>>

Payloads ==
    {ReqOne, ReqMin, ReqNoId, ReqStrId, ReqBigId, ReqArray, ReqCut, ReqNotUtf8,
     ReqTwice, <<>>}

(* a well-formed frame around a payload, for a host of byte order e *)
Frame(p, e) == write_u32(as_u32(Len(p)), e) \o p

(* the items the peer sends: well-formed frames, two frames back to back,
   and a frame whose length field announces more bytes than any peer of the
   model sends *)
Items(e) ==
    {Frame(p, e) : p \in Payloads}
    \cup {Frame(ReqOne, e) \o Frame(ReqNoId, e), <<255, 255, 255, 255>> \o ReqOne}

----------------------------------------------------------------------------
(* State *)

VARIABLES
    endian,     \* byte order of the host: "LE" or "BE"
    pipe,       \* bytes delivered to standard input and not yet read
    pending,    \* bytes of the current item the peer has still to deliver
    closed,     \* the peer has closed standard input
    frames,     \* items the peer has begun to send
    delivered,  \* bytes in the pipe when the latest call began, plus the
                \* bytes the peer has delivered to standard input since
    outBuf,     \* bytes accepted by io::stdout() and not yet flushed
    wire,       \* bytes flushed to the standard output stream, unread by the peer
    outOpen,    \* the peer holds the reading end of standard output
    pc,         \* per thread: where it is in stdin() / stdout()
    loc,        \* per thread: arguments, locals and result of its current call
    threads,    \* the threads that call into the module in this run
    mutex,      \* the callers take a lock around standard input, and another
                \* around standard output, for the length of each call
    log         \* what a run with several threads has seen so far (see Log0)

vars == <<endian, pipe, pending, closed, frames, delivered, outBuf, wire, outOpen, pc, loc, threads, mutex, log>>

inVars  == <<pipe, pending, closed, frames, delivered>>
outVars == <<outBuf, wire, outOpen>>

(* results of a call: Ok(..), Err(..), or a panic raised by unwrap() *)
NoRet == [kind |-> "none", err |-> "", id |-> Null, value |-> Null]
RetOk(id, value) == [kind |-> "Ok", err |-> "", id |-> id, value |-> value]
RetErr(e) == [kind |-> "Err", err |-> e, id |-> Null, value |-> Null]
RetPanic(e) == [kind |-> "panic", err |-> e, id |-> Null, value |-> Null]

(* the locals of a call.  op: the entry point; rpc_id, arg: its arguments;
   message: the Value (parsed request, or response built by json!);
   json: the String of line 36; len: message.len() of line 38; size: the
   u32 of line 11, or the Vec of line 37; buffer, data_buffer: lines 8 and 13; n_len, n_body: what the
   writes of lines 39 and 40 returned (-1: not called); steps: the steps of
   stdout() performed so far with their outcome; wire0, outBuf0: standard
   output when the call began; ret: the result *)
Loc0 ==
    [op |-> "none", rpc_id |-> Null, arg |-> Null, message |-> Null,
     json |-> <<>>, len |-> <<>>, size |-> <<>>, buffer |-> <<>>, data_buffer |-> <<>>,
     n_len |-> -1, n_body |-> -1, steps |-> <<>>,
     wire0 |-> <<>>, outBuf0 |-> <<>>, ret |-> NoRet]

(* the record of a run with several threads: the number of calls of stdin()
   that are over, the thread whose call of stdin() ended last, and whether
   every write so far accepted its whole buffer *)
Log0 == [reads |-> 0, last |-> "main", whole |-> TRUE]

Init ==
    /\ endian \in {"LE", "BE"}
    /\ pipe = <<>>
    /\ pending = <<>>
    /\ closed = FALSE
    /\ frames = 0
    /\ delivered = 0
    /\ outBuf = <<>>
    /\ wire = <<>>
    /\ outOpen = TRUE
    /\ pc = [t \in Threads |-> "idle"]
    /\ loc = [t \in Threads |-> Loc0]
    /\ threads = {"main"}
    /\ mutex = FALSE
    /\ log = Log0

(* mutant: the module lets one call run at a time, whichever stream it uses *)
CanCall_one_at_a_time(t) ==
    /\ t \in threads
    /\ pc[t] = "idle"
    /\ wire = <<>>
    /\ \A u \in threads \ {t} : pc[u] \in {"idle", "returned", "panicked"}

(* mutant: stdout() holds standard output from its first step to its last *)
CanCall_stdout_held(t) ==
    /\ t \in threads
    /\ pc[t] = "idle"
    /\ wire = <<>>
    /\ \A u \in threads \ {t} :
          pc[u] \notin {"out_serialize", "out_len", "out_body", "out_flush"}

(* a call may begin: the thread is idle and has not panicked, and the peer
   has read what was flushed so far *)
CanCall(t) ==
    /\ t \in threads
    /\ pc[t] = "idle"
    /\ wire = <<>>

Begin(t, op, id, arg, at) ==
    /\ pc' = [pc EXCEPT ![t] = at]
    /\ loc' = [loc EXCEPT ![t] = [Loc0 EXCEPT !.op = op, !.rpc_id = id, !.arg = arg,
                                              !.wire0 = wire, !.outBuf0 = outBuf]]
    /\ delivered' = Len(pipe)
    /\ UNCHANGED <<endian, threads>>

Return(t, l, r) ==
    /\ pc' = [pc EXCEPT ![t] = IF r.kind = "panic" THEN "panicked" ELSE "returned"]
    /\ loc' = [loc EXCEPT ![t] = [l EXCEPT !.ret = r]]
    /\ UNCHANGED <<endian, threads>>

(* the caller has taken the result of its call and may call again *)
Resume(t) ==
    /\ t \in threads
    /\ pc[t] = "returned"
    /\ pc' = [pc EXCEPT ![t] = "idle"]
    /\ loc' = [loc EXCEPT ![t] = Loc0]
    /\ UNCHANGED <<endian, inVars, outVars, threads>>

Goto(t, l, at) ==
    /\ pc' = [pc EXCEPT ![t] = at]
    /\ loc' = [loc EXCEPT ![t] = l]
    /\ UNCHANGED <<endian, threads>>

----------------------------------------------------------------------------
(* The reader: stdin(), lines 7-19 *)

(* data_buffer holds `size` bytes *)
Filled(l) == as_u32(Len(l.data_buffer)) = l.size

(* mutant: the read takes no byte *)
stdin_take_none(have, size, avail) == 0

(* mutant: the read takes every byte at hand, beyond the end of the frame *)
stdin_take_all(have, size, avail) == avail

(* read_exact: of avail bytes at hand, the number that goes into a buffer
   that holds have bytes and is size long: all of them, or as many as fit *)
stdin_take(have, size, avail) ==
    CHOOSE k \in 0..avail :
        /\ NatLeqU32(have + k, size)
        /\ k = avail \/ ~NatLeqU32(have + k + 1, size)

(* mutant: the bytes read ahead of the buffer are thrown away *)
stdin_rest_discard(bytes, k) == <<>>

(* read_exact: what stays in standard input once the first k bytes at hand
   have gone into the buffer *)
stdin_rest(bytes, k) == Drop(bytes, k)

(* mutant: a payload without a usable rpc_id is given the id 0 *)
stdin_result_default(data_buffer) ==
    LET r  == from_slice(data_buffer)
        id == as_i64(r.v, KeyRpcId)
    IN  IF ~r.ok THEN RetPanic("serde_json")
        ELSE IF ~id.ok THEN RetOk(Num(FALSE, <<0>>), r.v)
        ELSE RetOk(id.id, r.v)

(* mutant: only the rpc_id field of the request is returned *)
stdin_result_id_only(data_buffer) ==
    LET r  == from_slice(data_buffer)
        id == as_i64(r.v, KeyRpcId)
    IN  IF ~r.ok THEN RetPanic("serde_json")
        ELSE IF ~id.ok THEN RetErr("ProtocolError")
        ELSE RetOk(id.id, Obj(<<Member(KeyRpcId, id.id)>>))

(* lines 15-18 on a complete payload: parse it (unwrap panics on a parse
   error), extract rpc_id (the macro returns the error), return the pair *)
stdin_result(data_buffer) ==
    LET r  == from_slice(data_buffer)
        id == as_i64(r.v, KeyRpcId)
    IN  IF ~r.ok THEN RetPanic("serde_json")
        ELSE IF ~id.ok THEN RetErr("ProtocolError")
        ELSE RetOk(id.id, r.v)

(* some thread waits in read_exact for bytes that have not arrived *)
Blocked ==
    \E t \in threads :
        /\ pipe = <<>>
        /\ \/ pc[t] = "stdin_len"
           \/ pc[t] = "stdin_data" /\ ~Filled(loc[t])

stdin_call(t) ==
    /\ CanCall(t)
    /\ Begin(t, "stdin", Null, Null, "stdin_len")
    /\ UNCHANGED <<pipe, pending, closed, frames, outVars>>

(* line 9: read_exact(&mut buffer) takes what has arrived; lines 10-13 once
   the four bytes are there *)
stdin_read_len(t) ==
    /\ t \in threads
    /\ pc[t] = "stdin_len"
    /\ pipe # <<>>
    /\ LET l   == loc[t]
           k   == Min(Len(pipe), 4 - Len(l.buffer))
           buf == l.buffer \o Take(pipe, k)
           l2  == [l EXCEPT !.buffer = buf]
       IN  /\ pipe' = stdin_rest(pipe, k)
           /\ IF Len(buf) = 4
              THEN Goto(t, [l2 EXCEPT !.size = read_u32(buf, endian)], "stdin_data")
              ELSE Goto(t, l2, "stdin_len")
    /\ UNCHANGED <<pending, closed, frames, delivered, outVars>>

(* line 9: the stream ended before four bytes came; unwrap() panics *)
stdin_len_eof(t) ==
    /\ t \in threads
    /\ pc[t] = "stdin_len"
    /\ pipe = <<>>
    /\ closed
    /\ Return(t, loc[t], RetPanic("UnexpectedEof"))
    /\ UNCHANGED <<inVars, outVars>>

(* line 14: read_exact(&mut data_buffer) takes what has arrived *)
stdin_read_data(t) ==
    /\ t \in threads
    /\ pc[t] = "stdin_data"
    /\ ~Filled(loc[t])
    /\ pipe # <<>>
    /\ LET l == loc[t]
           k == stdin_take(Len(l.data_buffer), l.size, Len(pipe))
       IN  /\ pipe' = stdin_rest(pipe, k)
           /\ Goto(t, [l EXCEPT !.data_buffer = @ \o Take(pipe, k)], "stdin_data")
    /\ UNCHANGED <<pending, closed, frames, delivered, outVars>>

(* line 14: the stream ended before `size` bytes came; unwrap() panics *)
stdin_data_eof(t) ==
    /\ t \in threads
    /\ pc[t] = "stdin_data"
    /\ ~Filled(loc[t])
    /\ pipe = <<>>
    /\ closed
    /\ Return(t, loc[t], RetPanic("UnexpectedEof"))
    /\ UNCHANGED <<inVars, outVars>>

(* lines 15-18, once the payload is complete *)
stdin_parse(t) ==
    /\ t \in threads
    /\ pc[t] = "stdin_data"
    /\ Filled(loc[t])
    /\ LET r == stdin_result(loc[t].data_buffer)
       IN  Return(t, [loc[t] EXCEPT !.message = r.value, !.rpc_id = r.id], r)
    /\ UNCHANGED <<inVars, outVars>>

----------------------------------------------------------------------------
(* The peer at the other end of the two pipes.  When a byte arrives is
   visible to the process only while a read waits for it, so the peer sends
   and closes standard input only then; it reads the responses while the
   process is idle.  The only failure of standard output is the peer's exit. *)

PeerBegin ==
    /\ Blocked
    /\ ~closed
    /\ pending = <<>>
    /\ frames < MaxFrames
    /\ \E item \in Items(endian) : pending' = item
    /\ frames' = frames + 1
    /\ UNCHANGED <<endian, pipe, closed, delivered, outVars, pc, loc, threads>>

PeerSend ==
    /\ Blocked
    /\ pending # <<>>
    /\ \E k \in {Min(Chunk, Len(pending)), Len(pending)} :
         /\ pipe' = pipe \o Take(pending, k)
         /\ pending' = Drop(pending, k)
         /\ delivered' = delivered + k
    /\ UNCHANGED <<endian, closed, frames, outVars, pc, loc, threads>>

PeerClose ==
    /\ Blocked
    /\ ~closed
    /\ closed' = TRUE
    /\ pending' = <<>>
    /\ UNCHANGED <<endian, pipe, frames, delivered, outVars, pc, loc, threads>>

PeerDrain ==
    /\ wire # <<>>
    /\ \A t \in threads : pc[t] \notin {"out_serialize", "out_len", "out_body", "out_flush"}
    /\ wire' = <<>>
    /\ UNCHANGED <<endian, inVars, outBuf, outOpen, pc, loc, threads>>

(* the peer exits: both pipes are closed at its end.  The process can tell
   only at its next write, flush or read. *)
PeerExit ==
    /\ outOpen
    /\ \E t \in threads : pc[t] \in {"out_len", "out_body", "out_flush"}
    /\ outOpen' = FALSE
    /\ closed' = TRUE
    /\ pending' = <<>>
    /\ UNCHANGED <<endian, pipe, frames, delivered, outBuf, wire, pc, loc, threads>>

----------------------------------------------------------------------------
(* The writer: stdout_reply(), stdout_error(), stdout(), lines 21-42 *)

(* mutant: a reply also carries an error field *)
reply_message_with_error(rpc_id, reply) ==
    Obj(MapInsert(MapInsert(MapInsert(<<>>, KeyRpcId, rpc_id), KeyReply, reply),
                  KeyError, Null))

(* json!({"rpc_id": rpc_id, "reply": reply}) *)
reply_message(rpc_id, reply) ==
    Obj(MapInsert(MapInsert(<<>>, KeyRpcId, rpc_id), KeyReply, reply))

(* mutant: the error text carries the number of frames received so far *)
error_message_counting(rpc_id, error) ==
    Obj(MapInsert(MapInsert(<<>>, KeyRpcId, rpc_id), KeyError,
                  Str(debug_fmt(error) \o <<48 + frames>>)))

(* json!({"rpc_id": rpc_id, "error": format!("{:?}", error)}) *)
error_message(rpc_id, error) ==
    Obj(MapInsert(MapInsert(<<>>, KeyRpcId, rpc_id), KeyError, Str(debug_fmt(error))))

(* mutant: the length counts one byte more than the payload has *)
stdout_size_plus_one(json, e) == write_u32(as_u32(Len(json) + 1), e)

(* line 38 on the usize that message.len() gave: `len as u32` in native byte
   order *)
stdout_size_of(len, e) == write_u32(usize_as_u32(len), e)

(* lines 37-38: the Vec `size`, message.len() as u32 in native byte order *)
stdout_size(json, e) == stdout_size_of(message_len(json), e)

(* Write::write(buf) on an open stream returns Ok(n) having accepted the
   first n bytes of buf: all of them, or (a short write) fewer.  On a stream
   whose reading end is closed, write and flush return Err. *)
WriteCounts(buf) == {Len(buf)} \cup {n \in 1..MaxShort : n < Len(buf)}

(* mutant: the result of the length write is ignored *)
stdout_next_ignore(step, ok) ==
    IF ~ok /\ step # "write_len" THEN "return"
    ELSE IF step = "serialize" THEN "out_len"
    ELSE IF step = "write_len" THEN "out_body"
    ELSE IF step = "write_body" THEN "out_flush"
    ELSE "return"

(* the `?` after each step of stdout(): where the call goes after a step
   that succeeded or failed *)
stdout_next(step, ok) ==
    IF ~ok THEN "return"
    ELSE IF step = "serialize" THEN "out_len"
    ELSE IF step = "write_len" THEN "out_body"
    ELSE IF step = "write_body" THEN "out_flush"
    ELSE "return"

(* the end of one step of stdout(): record it, then go on or return *)
StepDone(t, l, step, ok, err) ==
    LET l2 == [l EXCEPT !.steps = Append(@, <<step, ok>>)]
        at == stdout_next(step, ok)
    IN  IF at = "return"
        THEN Return(t, l2, IF ok THEN RetOk(Null, Null) ELSE RetErr(err))
        ELSE Goto(t, l2, at)

stdout_reply_call(t, rpc_id, reply) ==
    /\ CanCall(t)
    /\ Begin(t, "stdout_reply", rpc_id, reply, "out_serialize")
    /\ UNCHANGED <<pipe, pending, closed, frames, outVars>>

stdout_error_call(t, rpc_id, error) ==
    /\ CanCall(t)
    /\ Begin(t, "stdout_error", rpc_id, error, "out_serialize")
    /\ UNCHANGED <<pipe, pending, closed, frames, outVars>>

(* lines 22-25 or 29-32, then lines 36-38.  serde_json reports no failure
   for a Value; the `?` of line 36 is kept as a possible outcome. *)
stdout_serialize(t) ==
    /\ t \in threads
    /\ pc[t] = "out_serialize"
    /\ LET l   == loc[t]
           msg == IF l.op = "stdout_reply" THEN reply_message(l.rpc_id, l.arg)
                                           ELSE error_message(l.rpc_id, l.arg)
           js  == to_string(msg)
       IN  \/ StepDone(t, [l EXCEPT !.message = msg, !.json = js,
                                    !.len = message_len(js),
                                    !.size = stdout_size(js, endian)],
                       "serialize", TRUE, "")
           \/ StepDone(t, [l EXCEPT !.message = msg], "serialize", FALSE, "EncodeError")
    /\ UNCHANGED <<inVars, outVars>>

(* line 39: io::stdout().write(&size)? *)
stdout_write_len(t) ==
    /\ t \in threads
    /\ pc[t] = "out_len"
    /\ LET l == loc[t] IN
       \/ /\ outOpen
          /\ \E n \in WriteCounts(l.size) :
               /\ outBuf' = outBuf \o Take(l.size, n)
               /\ StepDone(t, [l EXCEPT !.n_len = n], "write_len", TRUE, "")
       \/ /\ ~outOpen
          /\ outBuf' = outBuf
          /\ StepDone(t, l, "write_len", FALSE, "IoError")
    /\ UNCHANGED <<inVars, wire, outOpen>>

(* line 40: io::stdout().write(&message.into_bytes())? *)
stdout_write_body(t) ==
    /\ t \in threads
    /\ pc[t] = "out_body"
    /\ LET l == loc[t] IN
       \/ /\ outOpen
          /\ \E n \in WriteCounts(l.json) :
               /\ outBuf' = outBuf \o Take(l.json, n)
               /\ StepDone(t, [l EXCEPT !.n_body = n], "write_body", TRUE, "")
       \/ /\ ~outOpen
          /\ outBuf' = outBuf
          /\ StepDone(t, l, "write_body", FALSE, "IoError")
    /\ UNCHANGED <<inVars, wire, outOpen>>

(* line 41: io::stdout().flush()?  A flush that fails keeps the buffer. *)
stdout_flush(t) ==
    /\ t \in threads
    /\ pc[t] = "out_flush"
    /\ \/ /\ outOpen
          /\ wire' = wire \o outBuf
          /\ outBuf' = <<>>
          /\ StepDone(t, loc[t], "flush", TRUE, "")
       \/ /\ ~outOpen
          /\ UNCHANGED <<outBuf, wire>>
          /\ StepDone(t, loc[t], "flush", FALSE, "IoError")
    /\ UNCHANGED <<inVars, outOpen>>

----------------------------------------------------------------------------
(* The program: one thread that calls the module's entry points in any order *)

(* a run of one thread keeps no record *)
NoLog == UNCHANGED <<mutex, log>>

Next ==
    \/ \E t \in Threads : stdin_call(t) /\ NoLog
    \/ \E t \in Threads : stdin_read_len(t) /\ NoLog
    \/ \E t \in Threads : stdin_len_eof(t) /\ NoLog
    \/ \E t \in Threads : stdin_read_data(t) /\ NoLog
    \/ \E t \in Threads : stdin_data_eof(t) /\ NoLog
    \/ \E t \in Threads : stdin_parse(t) /\ NoLog
    \/ \E t \in Threads, id \in RpcIds, reply \in Replies :
          stdout_reply_call(t, id, reply) /\ NoLog
    \/ \E t \in Threads, id \in RpcIds, error \in Errors :
          stdout_error_call(t, id, error) /\ NoLog
    \/ \E t \in Threads : stdout_serialize(t) /\ NoLog
    \/ \E t \in Threads : stdout_write_len(t) /\ NoLog
    \/ \E t \in Threads : stdout_write_body(t) /\ NoLog
    \/ \E t \in Threads : stdout_flush(t) /\ NoLog
    \/ \E t \in Threads : Resume(t) /\ NoLog
    \/ PeerBegin /\ NoLog
    \/ PeerSend /\ NoLog
    \/ PeerClose /\ NoLog
    \/ PeerDrain /\ NoLog
    \/ PeerExit /\ NoLog

Spec == Init /\ [][Next]_vars

(* a statement of the call thread t is in that moves bytes, if it can run:
   a read for which bytes or the end of the stream are there, a write, a
   flush *)
ThreadStep(t) ==
    /\ \/ stdin_read_len(t) \/ stdin_len_eof(t)
       \/ stdin_read_data(t) \/ stdin_data_eof(t)
       \/ stdout_write_len(t) \/ stdout_write_body(t) \/ stdout_flush(t)
    /\ NoLog

(* lines 15-18 have run: with its payload complete the thread has left line
   14, by a return or by a panic.  The step is stdin_parse(t), named here by
   where the thread is. *)
Parsed15(t) ==
    /\ pc[t] = "stdin_data"
    /\ Filled(loc[t])
    /\ \E at \in {"returned", "panicked"} : pc' = [pc EXCEPT ![t] = at]

(* line 36 has run: the thread has left it, for line 37 or for its caller.
   The step is stdout_serialize(t), named here by where the thread is. *)
Serialized36(t) ==
    /\ pc[t] = "out_serialize"
    /\ \E at \in {"out_len", "returned"} : pc' = [pc EXCEPT ![t] = at]

(* Spec with a scheduler that lets a thread run: a statement that can run
   does run in the end.  Nothing is asked of the peer. *)
FairSpec ==
    /\ Spec
    /\ \A t \in Threads : WF_vars(ThreadStep(t))
    /\ \A t \in Threads : WF_pc(Parsed15(t))
    /\ \A t \in Threads : WF_pc(Serialized36(t))

----------------------------------------------------------------------------
(* Several threads.  Two threads call the module's entry points.  In a run
   with `mutex` each call of stdin() is under the callers' lock around
   standard input and each call of stdout_reply() or stdout_error() under
   their lock around standard output.  A run without it is of two writers
   that are not coordinated, and every write in it accepts its whole buffer,
   so that what it shows is owed to the interleaving alone.  The peer sends
   whole frames, each in one piece, keeps both pipes open and reads what is
   flushed; the run keeps the record `log`. *)

(* the payloads the peer may put in its k-th frame in such a run, each
   marked with k: the request {"rpc_id":k}, JSON without an rpc_id
   {"foo":k}, and bytes that are not JSON, {"rpc_id":k *)
PayloadsMT(k) ==
    LET req == to_string(Obj(<<Member(KeyRpcId, Num(FALSE, <<k>>))>>))
    IN  {req,
         to_string(Obj(<<Member(<<102, 111, 111>>, Num(FALSE, <<k>>))>>)),
         Take(req, Len(req) - 1)}

(* thread t is inside a call that uses the given stream *)
Inside(t, stream) ==
    IF stream = "stdin" THEN pc[t] \in {"stdin_len", "stdin_data"}
    ELSE pc[t] \in {"out_serialize", "out_len", "out_body", "out_flush"}

(* mutant: the callers' locks are not taken *)
MayEnter_unlocked(t, stream) == TRUE

(* the callers' lock around a stream: a call that uses the stream begins
   only when no other thread is inside a call that uses it; the lock is
   released when the call is over, however it ends *)
MayEnter(t, stream) ==
    mutex => \A u \in threads \ {t} : ~Inside(u, stream)

InitMT ==
    /\ endian = "LE"
    /\ pipe = <<>>
    /\ pending = <<>>
    /\ closed = FALSE
    /\ frames = 0
    /\ delivered = 0
    /\ outBuf = <<>>
    /\ wire = <<>>
    /\ outOpen = TRUE
    /\ pc = [t \in Threads |-> "idle"]
    /\ loc = [t \in Threads |-> Loc0]
    /\ threads = Threads
    /\ mutex \in BOOLEAN
    /\ log = Log0

(* a call of stdin() by thread t is over: the record counts it *)
LogGot(t) ==
    /\ log' = [log EXCEPT !.reads = @ + 1, !.last = t]
    /\ mutex' = mutex

(* a write of a buffer of len bytes has accepted n of them: the record
   notes a write that accepted fewer.  A run with `mutex` has at most one
   such write, after which the calls under way go on and no further call
   begins; a run without `mutex` has none. *)
LogWrite(n, len) ==
    /\ (mutex /\ log.whole) \/ n = len
    /\ log' = [log EXCEPT !.whole = @ /\ n = len]
    /\ mutex' = mutex

(* the peer begins its next frame, a whole frame around one of PayloadsMT,
   or its next two frames back to back *)
PeerBeginMT ==
    /\ Blocked
    /\ ~closed
    /\ pending = <<>>
    /\ frames < MaxFrames
    /\ \E p \in PayloadsMT(frames + 1) :
          \/ /\ pending' = Frame(p, endian)
             /\ frames' = frames + 1
          \/ /\ frames + 1 < MaxFrames
             /\ \E q \in PayloadsMT(frames + 2) :
                   pending' = Frame(p, endian) \o Frame(q, endian)
             /\ frames' = frames + 2
    /\ UNCHANGED <<endian, pipe, closed, delivered, outVars, pc, loc, threads, mutex, log>>

NextMT ==
    \/ \E t \in Threads :
          mutex /\ log.whole /\ MayEnter(t, "stdin") /\ stdin_call(t) /\ NoLog
    \/ \E t \in Threads : stdin_read_len(t) /\ NoLog
    \/ \E t \in Threads : stdin_read_data(t) /\ NoLog
    \/ \E t \in Threads : stdin_parse(t) /\ LogGot(t)
    \/ \E t \in Threads :
          /\ log.whole /\ MayEnter(t, "stdout")
          /\ stdout_reply_call(t, Num(FALSE, <<1>>), Null) /\ NoLog
    \/ \E t \in Threads, error \in Errors :
          /\ log.whole /\ MayEnter(t, "stdout")
          /\ stdout_error_call(t, Num(FALSE, <<1>>), error) /\ NoLog
    \/ \E t \in Threads : stdout_serialize(t) /\ NoLog
    \/ \E t \in Threads :
          stdout_write_len(t) /\ LogWrite(loc'[t].n_len, Len(loc[t].size))
    \/ \E t \in Threads :
          stdout_write_body(t) /\ LogWrite(loc'[t].n_body, Len(loc[t].json))
    \/ \E t \in Threads : stdout_flush(t) /\ NoLog
    \/ \E t \in Threads : Resume(t) /\ NoLog
    \/ PeerBeginMT
    \/ PeerSend /\ pending' = <<>> /\ NoLog
    \/ PeerDrain /\ NoLog

SpecMT == InitMT /\ [][NextMT]_vars

----------------------------------------------------------------------------
(* Lines 37-38 on their own, for strings of every length.  A thread stands
   before line 37 with the String of line 36: one that stdout_reply or
   stdout_error forms, or one of 2^32 bytes or more, of which the model keeps
   the length only (line 38 reads nothing else of it). *)

(* the strings line 36 yields for the arguments of the model *)
Strings36 ==
    {to_string(reply_message(id, reply)) : id \in RpcIds, reply \in Replies}
    \cup {to_string(error_message(id, error)) : id \in RpcIds, error \in Errors}

(* lengths of 2^32 bytes and more, among them 2^32, 2^32 + 1, 2^33 - 1 and
   usize::MAX *)
LongLens ==
    {n \in {<<a, 0, b, b, c, 0, 0, d>> :
                a \in {0, 1, 255}, b \in {0, 255}, c \in {0, 1, 255}, d \in {0, 255}} :
        SubSeq(n, 5, 8) # <<0, 0, 0, 0>>}

Before37 ==
    {[Loc0 EXCEPT !.op = "stdout", !.json = s, !.len = message_len(s)] :
        s \in Strings36}
    \cup {[Loc0 EXCEPT !.op = "stdout", !.len = n] : n \in LongLens}

InitLen ==
    /\ endian \in {"LE", "BE"}
    /\ pipe = <<>>
    /\ pending = <<>>
    /\ closed = FALSE
    /\ frames = 0
    /\ delivered = 0
    /\ outBuf = <<>>
    /\ wire = <<>>
    /\ outOpen = TRUE
    /\ pc = [t \in Threads |-> "out_size"]
    /\ loc \in [Threads -> Before37]
    /\ threads = Threads
    /\ mutex = FALSE
    /\ log = Log0

(* lines 37-38 *)
stdout_size_step(t) ==
    /\ t \in threads
    /\ pc[t] = "out_size"
    /\ Goto(t, [loc[t] EXCEPT !.size = stdout_size_of(loc[t].len, endian)], "out_len")
    /\ UNCHANGED <<inVars, outVars>>

NextLen == \E t \in Threads : stdout_size_step(t) /\ NoLog

SpecLen == InitLen /\ [][NextLen]_vars

----------------------------------------------------------------------------
(* Properties *)

IsWriter(l) == l.op \in {"stdout_reply", "stdout_error"}

(* the call of thread t is over: it returned or it panicked *)
Ended(t) == pc[t] \in {"returned", "panicked"}

(* stdout() has built `message` and `size` (line 38 is behind it) *)
Serialized(l) == IsWriter(l) /\ Len(l.steps) >= 1 /\ l.steps[1][2]

(* the number a four-byte length field stands for on a host of byte order e
   (for fields below 2^24) *)
FieldValue(b, e) ==
    IF e = "LE" THEN b[1] + 256 * b[2] + 65536 * b[3]
    ELSE b[4] + 256 * b[3] + 65536 * b[2]

FieldSmall(b, e) == IF e = "LE" THEN b[4] = 0 ELSE b[1] = 0

(* the bytes standard output has accepted from a call of stdout() *)
Accepted(l) ==
    (IF l.n_len < 0 THEN <<>> ELSE Take(l.size, l.n_len))
    \o (IF l.n_body < 0 THEN <<>> ELSE Take(l.json, l.n_body))

(* the peer has not yet read what the call of thread t put on the stream *)
Unread(t) ==
    \/ pc[t] \in {"out_serialize", "out_len", "out_body", "out_flush"}
    \/ pc[t] = "returned" /\ (loc[t].ret.kind = "Err" \/ wire # <<>>)

(* C1: in every frame the writer forms, the four-byte length field, read in
   the host's byte order, is exactly the number of bytes of the JSON payload;
   the bytes standard output accepts from the call are bytes of that frame,
   in order, and nothing else; a call whose two writes were complete has put
   exactly length field and payload on the stream. *)
C1_LengthInvariant ==
    \A t \in Threads :
        LET l == loc[t] IN
        Serialized(l) =>
            /\ Len(l.size) = 4
            /\ FieldSmall(l.size, endian)
            /\ FieldValue(l.size, endian) = Len(l.json)
            /\ from_slice(l.json).ok
            /\ Unread(t) => wire \o outBuf = l.wire0 \o l.outBuf0 \o Accepted(l)
            /\ (pc[t] = "returned" /\ l.ret.kind = "Ok" /\ wire # <<>>
                /\ l.n_len = 4 /\ l.n_body = Len(l.json))
               => wire = l.size \o l.json /\ Len(wire) = 4 + FieldValue(l.size, endian)

(* C1 witness: a call returned Ok with a whole frame on the stream whose
   payload is longer than 255 bytes *)
C1_Witness ==
    \E t \in Threads :
        /\ pc[t] = "returned"
        /\ IsWriter(loc[t])
        /\ loc[t].ret.kind = "Ok"
        /\ Len(loc[t].json) > 255
        /\ wire = loc[t].size \o loc[t].json

(* C2: the frame stdout_reply(i, v) forms, taken through the reader's steps
   (read_u32 on the first four bytes in the host's byte order, that many
   bytes, from_slice, rpc_id), is consumed whole and yields the id i and an
   object with exactly the two members rpc_id = i and reply = v. *)
C2_RoundTrip ==
    \A t \in Threads :
        LET l == loc[t] IN
        (Serialized(l) /\ l.op = "stdout_reply") =>
            LET F == l.size \o l.json
                n == read_u32(Take(F, 4), endian)
                k == stdin_take(0, n, Len(F) - 4)
                r == stdin_result(SubSeq(F, 5, 4 + k))
            IN  /\ as_u32(k) = n
                /\ 4 + k = Len(F)
                /\ r.kind = "Ok"
                /\ r.id = l.rpc_id
                /\ r.value.t = "obj"
                /\ Len(r.value.c) = 2
                /\ Get(r.value, KeyRpcId) = l.rpc_id
                /\ Get(r.value, KeyReply) = l.arg

(* C2 witness: a reply frame for the id i64::MIN and a string with a
   two-byte character and a quote *)
C2_Witness ==
    \E t \in Threads :
        /\ Serialized(loc[t])
        /\ loc[t].op = "stdout_reply"
        /\ loc[t].rpc_id = Num(TRUE, I64MinDigits)
        /\ loc[t].arg = Str(<<233, 34>>)

(* C3: a call of stdin() that ends with fewer than four bytes of the length
   read, the stream being closed, has returned Err(IoError).  (The code
   panics instead.) *)
C3_ShortReadIsIoError ==
    \A t \in Threads :
        (loc[t].op = "stdin" /\ Ended(t) /\ Len(loc[t].buffer) < 4)
        => loc[t].ret.kind = "Err" /\ loc[t].ret.err = "IoError"

(* the payload of the frame stdin() has read completely *)
Complete(t) ==
    /\ loc[t].op = "stdin"
    /\ Ended(t)
    /\ Len(loc[t].buffer) = 4
    /\ Filled(loc[t])

(* C4: when the payload of a complete frame is JSON without an rpc_id, or
   with an rpc_id that is no i64, stdin() returns Err(ProtocolError) and no
   (rpc_id, value) pair. *)
C4_MissingIdIsProtocolError ==
    \A t \in Threads :
        LET r == from_slice(loc[t].data_buffer) IN
        (Complete(t) /\ r.ok /\ ~IsI64(Get(r.v, KeyRpcId)))
        => /\ pc[t] = "returned"
           /\ loc[t].ret = RetErr("ProtocolError")

(* C4 witness: the four payloads without a usable rpc_id have each been
   answered; here {"foo":1} *)
C4_Witness ==
    \E t \in Threads :
        /\ Complete(t)
        /\ loc[t].data_buffer = ReqNoId
        /\ loc[t].ret.kind = "Err"

(* C5: when the payload of a complete frame is not UTF-8 JSON, stdin()
   returns Err(DecodeError).  (The code panics instead.) *)
C5_BadJsonIsDecodeError ==
    \A t \in Threads :
        (Complete(t) /\ ~from_slice(loc[t].data_buffer).ok)
        => loc[t].ret.kind = "Err" /\ loc[t].ret.err = "DecodeError"

(* C6: when the length n was read and the stream ends before n payload
   bytes, stdin() returns Err(IoError).  (The code panics instead.) *)
C6_ShortPayloadIsIoError ==
    \A t \in Threads :
        (loc[t].op = "stdin" /\ Ended(t) /\ Len(loc[t].buffer) = 4 /\ ~Filled(loc[t]))
        => loc[t].ret.kind = "Err" /\ loc[t].ret.err = "IoError"

(* C7: for a complete frame whose payload is a JSON object with an i64
   rpc_id, negative or not, stdin() returns Ok with that id and the whole
   parsed payload: its serialisation is the payload for a payload in
   serde_json's own format, and the frame of length 12 around {"rpc_id":1}
   gives (1, {"rpc_id":1}). *)
C7_ReturnsIdAndWholeValue ==
    \A t \in Threads :
        LET l == loc[t]
            r == from_slice(l.data_buffer)
        IN  (Complete(t) /\ r.ok /\ r.v.t = "obj" /\ IsI64(Get(r.v, KeyRpcId)))
            => /\ pc[t] = "returned"
               /\ l.ret.kind = "Ok"
               /\ l.ret.id = Get(r.v, KeyRpcId)
               /\ l.ret.value = r.v
               /\ l.data_buffer \in {ReqOne, ReqMin}
                  => to_string(l.ret.value) = l.data_buffer
               /\ l.data_buffer = ReqOne
                  => /\ FieldValue(l.buffer, endian) = 12
                     /\ l.ret.id = Num(FALSE, <<1>>)
                     /\ l.ret.value = Obj(<<Member(KeyRpcId, Num(FALSE, <<1>>))>>)

(* C7 witness: the request with the id i64::MIN and a further field has been
   returned *)
C7_Witness ==
    \E t \in Threads :
        /\ Complete(t)
        /\ loc[t].data_buffer = ReqMin
        /\ loc[t].ret.kind = "Ok"
        /\ loc[t].ret.id = Num(TRUE, I64MinDigits)

(* C8: at every point of a call of stdin() the bytes taken from standard
   input are the bytes in its two buffers, none read ahead and none dropped;
   a call that returned Ok for a frame with the length field n has taken
   exactly 4 + n bytes, and has left standard output as it was. *)
C8_ConsumesExactlyFrame ==
    \A t \in Threads :
        LET l == loc[t] IN
        /\ l.op = "stdin"
           => delivered - Len(pipe) = Len(l.buffer) + Len(l.data_buffer)
        /\ (l.op = "stdin" /\ pc[t] = "returned" /\ l.ret.kind = "Ok")
           => /\ FieldSmall(l.buffer, endian)
              /\ delivered - Len(pipe) = 4 + FieldValue(l.buffer, endian)
              /\ outBuf = l.outBuf0
              /\ wire = l.wire0

(* C8 witness: a call returned Ok while the next frame was already in the
   pipe, and left it there *)
C8_Witness ==
    \E t \in Threads :
        /\ loc[t].op = "stdin"
        /\ pc[t] = "returned"
        /\ loc[t].ret.kind = "Ok"
        /\ pipe = Frame(ReqNoId, endian)

(* C9: a call of stdout_reply or stdout_error that returned Ok has put its
   whole frame, four length bytes and all payload bytes, on the stream and
   nothing else, and nothing is left unflushed.  (The code ignores how many
   bytes each write accepted.) *)
C9_OkMeansWholeFrame ==
    \A t \in Threads :
        LET l == loc[t] IN
        (IsWriter(l) /\ pc[t] = "returned" /\ l.ret.kind = "Ok" /\ wire # <<>>)
        => /\ wire = l.wire0 \o l.outBuf0 \o l.size \o l.json
           /\ outBuf = <<>>

(* the names of the steps of stdout(), in the order of lines 36-41 *)
StepOrder == <<"serialize", "write_len", "write_body", "flush">>

(* C10: stdout() takes its steps in the order serialize, write length,
   write body, flush; every step before the last one taken succeeded, and a
   step that fails is the last one: the call has returned Err.  After a
   failed serialisation no write was called and standard output is as it
   was; after a failed length write the body write was not called. *)
C10_StepsInOrder ==
    \A t \in Threads :
        LET l == loc[t]
            n == Len(l.steps)
        IN  IsWriter(l) =>
            /\ n <= 4
            /\ \A i \in 1..n : l.steps[i][1] = StepOrder[i]
            /\ \A i \in 1..(n - 1) : l.steps[i][2]
            /\ (n > 0 /\ ~l.steps[n][2])
               => pc[t] = "returned" /\ l.ret.kind = "Err"
            /\ (pc[t] = "returned" /\ l.ret.kind = "Ok")
               => n = 4 /\ l.steps[4][2]
            /\ (n = 1 /\ ~l.steps[1][2])
               => /\ l.n_len = -1 /\ l.n_body = -1
                  /\ outBuf = l.outBuf0 /\ wire = l.wire0
            /\ (n = 2 /\ ~l.steps[2][2])
               => l.n_body = -1 /\ outBuf = l.outBuf0
            /\ l.n_body >= 0 => l.n_len >= 0

(* C10 witness: the body write failed after a length write that succeeded;
   the call returned Err without a flush *)
C10_Witness ==
    \E t \in Threads :
        /\ IsWriter(loc[t])
        /\ pc[t] = "returned"
        /\ loc[t].steps = <<<<"serialize", TRUE>>, <<"write_len", TRUE>>,
                            <<"write_body", FALSE>>>>
        /\ loc[t].ret = RetErr("IoError")
        /\ outBuf = loc[t].size

(* the keys of a JSON object *)
Keys(v) == {v.c[i].s : i \in 1..Len(v.c)}

(* C11: the response object a writer call builds, and the object its
   payload bytes parse to, has the field rpc_id with the id the caller
   passed and exactly one of reply and error: stdout_reply(id, v) builds
   {rpc_id: id, reply: v} and no error field, stdout_error(id, e) builds
   {rpc_id: id, error: s} with s a string and no reply field. *)
C11_ExactlyOneOfReplyError ==
    \A t \in Threads :
        LET l == loc[t]
            m == l.message
        IN  (IsWriter(l) /\ Len(l.steps) >= 1) =>
            /\ m.t = "obj"
            /\ Len(m.c) = 2
            /\ Get(m, KeyRpcId) = l.rpc_id
            /\ l.op = "stdout_reply"
               => Keys(m) = {KeyRpcId, KeyReply} /\ Get(m, KeyReply) = l.arg
            /\ l.op = "stdout_error"
               => /\ Keys(m) = {KeyRpcId, KeyError}
                  /\ Get(m, KeyError).t = "str"
                  /\ Get(m, KeyError).s = debug_fmt(l.arg)
            /\ Serialized(l) =>
                  LET r == from_slice(l.json) IN r.ok /\ r.v = m

(* C11 witness: an error response for the id i64::MAX has been serialised *)
C11_Witness ==
    \E t \in Threads :
        /\ Serialized(loc[t])
        /\ loc[t].op = "stdout_error"
        /\ loc[t].rpc_id = Num(FALSE, I64MaxDigits)
        /\ KeyReply \notin Keys(loc[t].message)

(* C12: two calls of stdout_error with the same rpc_id and the same error
   value form byte-identical frames, whatever each thread called before:
   reads, replies, other errors, a write that fell short. *)
C12_SameErrorSameFrame ==
    \A t, u \in Threads :
        LET a == loc[t]
            b == loc[u]
        IN  (/\ Serialized(a) /\ a.op = "stdout_error"
             /\ Serialized(b) /\ b.op = "stdout_error"
             /\ a.rpc_id = b.rpc_id
             /\ a.arg = b.arg)
            => a.size \o a.json = b.size \o b.json

(* C12 witness: a call of stdout_error has returned; later, after a frame
   was read from standard input, the other thread has called stdout_error
   with the same arguments and has formed its frame *)
C12_Witness ==
    /\ log.reads >= 1
    /\ pc["main"] = "returned"
    /\ loc["main"].op = "stdout_error"
    /\ loc["main"].ret.kind = "Ok"
    /\ pc["worker"] = "out_len"
    /\ loc["worker"].op = "stdout_error"
    /\ loc["worker"].arg = loc["main"].arg
    /\ loc["worker"].rpc_id = loc["main"].rpc_id
    /\ loc["worker"].wire0 = <<>>
    /\ wire = <<>>

(* a is the beginning of b *)
IsPrefix(a, b) == Len(a) <= Len(b) /\ a = Take(b, Len(a))

(* the bytes the call of stdin() of thread t has taken from standard input *)
Taken(t) == loc[t].buffer \o loc[t].data_buffer

(* bytes are the whole frames number k, k + 1, ... up to the last one the
   peer has begun, one after the other *)
RECURSIVE FramesFrom(_, _)
FramesFrom(bytes, k) ==
    IF bytes = <<>> THEN k = frames + 1
    ELSE /\ k <= frames
         /\ \E p \in PayloadsMT(k) :
               /\ IsPrefix(Frame(p, endian), bytes)
               /\ FramesFrom(Drop(bytes, 4 + Len(p)), k + 1)

(* what stdin() makes of the k-th frame, by the kind of its payload *)
Outcome(t, k) ==
    LET req == to_string(Obj(<<Member(KeyRpcId, Num(FALSE, <<k>>))>>))
        d   == loc[t].data_buffer
    IN  /\ Taken(t) = Frame(d, endian)
        /\ d \in PayloadsMT(k)
        /\ IF d = req
           THEN pc[t] = "returned" /\ loc[t].ret.kind = "Ok"
                /\ loc[t].ret.id = Num(FALSE, <<k>>)
           ELSE IF d = Take(req, Len(req) - 1)
           THEN pc[t] = "panicked"
           ELSE pc[t] = "returned" /\ loc[t].ret = RetErr("ProtocolError")

(* C13: over a sequence of whole frames on standard input, with the calls of
   stdin() one after the other, the stream stays at a frame boundary: a call
   under way has taken the beginning of the next frame and nothing else,
   what waits in the stream after a call, whether it returned Ok, returned
   ProtocolError or panicked on a payload that is not JSON, is the frames
   that follow, whole, and the k-th call to end has taken the k-th frame
   and decoded it. *)
C13_FrameBoundary ==
    mutex =>
        /\ \A t \in Threads :
              Inside(t, "stdin") =>
                /\ \E p \in PayloadsMT(log.reads + 1) :
                      IsPrefix(Taken(t), Frame(p, endian))
                /\ FramesFrom(Taken(t) \o pipe \o pending, log.reads + 1)
        /\ (\A t \in Threads : ~Inside(t, "stdin"))
              => FramesFrom(pipe \o pending, log.reads + 1)
        /\ (log.reads >= 1 /\ Ended(log.last) /\ loc[log.last].op = "stdin")
              => Outcome(log.last, log.reads)

(* C13 witness: the first frame was not JSON and the call that took it
   panicked; the next call, on the other thread, returned the second frame's
   request *)
C13_Witness ==
    /\ mutex
    /\ log.reads = 2
    /\ \E t, u \in Threads :
          /\ pc[t] = "panicked"
          /\ loc[t].op = "stdin"
          /\ Outcome(t, 1)
          /\ pc[u] = "returned"
          /\ loc[u].ret.kind = "Ok"
          /\ Outcome(u, 2)

(* bytes are whole response frames, one after the other: a length field,
   that many bytes, and these a JSON object with an rpc_id *)
RECURSIVE WholeFrames(_)
WholeFrames(bytes) ==
    IF bytes = <<>> THEN TRUE
    ELSE /\ Len(bytes) >= 4
         /\ FieldSmall(Take(bytes, 4), endian)
         /\ LET n == FieldValue(Take(bytes, 4), endian) IN
            /\ 4 + n <= Len(bytes)
            /\ LET r == from_slice(SubSeq(bytes, 5, 4 + n)) IN
               r.ok /\ IsI64(Get(r.v, KeyRpcId))
            /\ WholeFrames(Drop(bytes, 4 + n))

(* each call of stdin() has the bytes of one frame: the beginning of it
   while under way, all of it once over; two calls have different frames *)
ReadersOneFrameEach ==
    /\ \A t \in Threads :
          loc[t].op = "stdin" =>
            \E k \in 1..(frames + 1) : \E p \in PayloadsMT(k) :
              /\ IsPrefix(Taken(t), Frame(p, endian))
              /\ Ended(t) => Taken(t) = Frame(p, endian)
    /\ \A t, u \in Threads :
          (t # u /\ loc[t].op = "stdin" /\ loc[u].op = "stdin" /\ Ended(t) /\ Ended(u))
          => Taken(t) # Taken(u)

(* while a thread waits in stdin() for bytes, another thread's writer call
   can begin and can take each of its steps on standard output *)
BlockedReaderLetsWriterRun ==
    \A t, u \in Threads :
        (t # u /\ Inside(t, "stdin") /\ pipe = <<>>) =>
            /\ (pc[u] = "idle" /\ wire = <<>> /\ log.whole)
               => ENABLED (MayEnter(u, "stdout")
                           /\ stdout_reply_call(u, Num(FALSE, <<1>>), Null))
            /\ pc[u] = "out_len" => ENABLED stdout_write_len(u)
            /\ pc[u] = "out_body" => ENABLED stdout_write_body(u)
            /\ pc[u] = "out_flush" => ENABLED stdout_flush(u)

(* C14, as amended: with the calls of stdin() under one lock and the writer
   calls under another, in every interleaving each call of stdin() has the
   bytes of exactly one frame and a reader that waits never keeps a writer
   from running; and as long as every write accepted its whole buffer, the
   bytes flushed to standard output are whole frames one after the other
   and nothing stays unflushed between writer calls. *)
C14_LockedCallsKeepFrames ==
    mutex =>
        /\ log.whole =>
              /\ WholeFrames(wire)
              /\ (\A t \in Threads : ~Inside(t, "stdout")) => outBuf = <<>>
        /\ ReadersOneFrameEach
        /\ BlockedReaderLetsWriterRun

(* C14 as stated: under the two locks the bytes on standard output are
   whole frames one after the other, whatever the writes accepted *)
C14_AsStated ==
    mutex =>
        /\ WholeFrames(wire)
        /\ ReadersOneFrameEach
        /\ BlockedReaderLetsWriterRun

(* C14 witness: one thread waits in stdin() for a frame while the other has
   returned Ok from a writer call, its whole frame on the stream *)
C14_Witness ==
    /\ mutex
    /\ log.whole
    /\ \E t, u \in Threads :
          /\ Inside(t, "stdin")
          /\ pipe = <<>>
          /\ pc[u] = "returned"
          /\ IsWriter(loc[u])
          /\ loc[u].ret.kind = "Ok"
          /\ wire = loc[u].size \o loc[u].json

(* C16: stdout() takes standard output anew for each of its three steps and
   holds nothing between them: while one thread is inside a writer call and
   the callers take no lock, another thread's writer call can begin, and can
   take its length write, its body write and its flush.  (So the header of
   one frame can be followed on the stream by bytes of the other: the
   witness.) *)
C16_NoLockAcrossSteps ==
    ~mutex =>
        \A t, u \in Threads :
            (t # u /\ Inside(t, "stdout")) =>
                /\ (pc[u] = "idle" /\ wire = <<>>)
                   => ENABLED (/\ log.whole /\ MayEnter(u, "stdout")
                               /\ stdout_error_call(u, Num(FALSE, <<1>>), "Io"))
                /\ pc[u] = "out_len" => ENABLED stdout_write_len(u)
                /\ pc[u] = "out_body" => ENABLED stdout_write_body(u)
                /\ pc[u] = "out_flush" => ENABLED stdout_flush(u)

(* C16 witness: two writer calls without a lock have both returned Ok, every
   write having accepted its whole buffer, and the stream holds the header
   of one frame, then the header of the other, then the two payloads *)
C16_Witness ==
    /\ ~mutex
    /\ log.whole
    /\ \E t, u \in Threads :
          /\ t # u
          /\ pc[t] = "returned" /\ loc[t].ret.kind = "Ok" /\ IsWriter(loc[t])
          /\ pc[u] = "returned" /\ loc[u].ret.kind = "Ok" /\ IsWriter(loc[u])
          /\ loc[t].json # loc[u].json
          /\ wire = loc[t].size \o loc[u].size \o loc[t].json \o loc[u].json
          /\ ~WholeFrames(wire)

(* the call of stdin() that thread t is in waits: standard input is open and
   has delivered fewer than the 4 + n bytes of the frame, none of them unread *)
Waiting(t) ==
    /\ pipe = <<>>
    /\ ~closed
    /\ \/ pc[t] = "stdin_len"
       \/ pc[t] = "stdin_data" /\ ~Filled(loc[t])

(* C15, as amended: a call of stdin() under way goes on until it is over or
   waits on an open standard input that has delivered too few bytes, and it
   never waits otherwise; a writer call under way goes on until it is over.
   A call that is over has returned, or, for stdin(), has panicked. *)
C15_CallsEnd ==
    \A t \in Threads :
        /\ Inside(t, "stdin") ~> (Ended(t) \/ Waiting(t))
        /\ Inside(t, "stdout") ~> Ended(t)

(* C15 as stated: a call of stdin() that is over has returned, with a
   result or with an error *)
C15_AsStated ==
    \A t \in Threads :
        (loc[t].op = "stdin" /\ Ended(t))
        => pc[t] = "returned" /\ loc[t].ret.kind \in {"Ok", "Err"}

(* C15 witness: a call of stdin() that waited for the rest of its frame has
   returned, the stream still open *)
C15_Witness ==
    \E t \in Threads :
        /\ loc[t].op = "stdin"
        /\ pc[t] = "returned"
        /\ loc[t].ret.kind = "Ok"
        /\ ~closed
        /\ pending = <<>>
        /\ pipe = <<>>
        /\ frames = MaxFrames

(* the characters of a UTF-8 string: its bytes that continue no character *)
Chars(s) == Cardinality({i \in 1..Len(s) : s[i] < 128 \/ s[i] >= 192})

(* C17: the length field of lines 37-38 is the four low base-256 digits of
   message.len(), that is the byte length modulo 2^32 (256^4 = 2^32 divides
   the weight of every higher digit); read back it is the byte length exactly
   when the four high digits are zero, that is when the length is below
   2^32; and for a string of the model it is the number of its UTF-8 bytes,
   which is the number of its characters only when none takes several
   bytes. *)
C17_LengthModulo ==
    \A t \in Threads :
        LET l     == loc[t]
            field == read_u32(l.size, endian)
        IN  pc[t] = "out_len" =>
              /\ Len(l.size) = 4
              /\ \A i \in 1..4 : field[i] = l.len[i]
              /\ (field \o <<0, 0, 0, 0>> = l.len) <=> (\A i \in 5..8 : l.len[i] = 0)
              /\ l.json # <<>> =>
                    /\ l.len = message_len(l.json)
                    /\ FieldSmall(l.size, endian)
                    /\ FieldValue(l.size, endian) = Len(l.json)
                    /\ Chars(l.json) <= Len(l.json)
                    /\ (Chars(l.json) = Len(l.json)) <=> (\A i \in 1..Len(l.json) : l.json[i] < 128)

(* C17 witness: one thread has formed the length field of a string of
   2^32 + 1 bytes, which reads 1; the other that of a string with a character
   of two bytes, which reads more than the number of characters *)
C17_Witness ==
    \E t, u \in Threads :
        /\ pc[t] = "out_len"
        /\ loc[t].len = <<1, 0, 0, 0, 1, 0, 0, 0>>
        /\ read_u32(loc[t].size, endian) = <<1, 0, 0, 0>>
        /\ pc[u] = "out_len"
        /\ loc[u].json # <<>>
        /\ Chars(loc[u].json) < Len(loc[u].json)
        /\ FieldValue(loc[u].size, endian) = Len(loc[u].json)
====
